---- MODULE Spec2Model ----
(***************************************************************************)
(* Model of extract_flight_profiles.py: the script loads six sample       *)
(* series, removes the samples where any series is non-finite, finds the  *)
(* altitude peaks and valleys, pairs neighbouring extrema of different    *)
(* kind, keeps the pairs shorter than the mean span, averages the series  *)
(* over each kept pair, writes the report and prints the mean wind        *)
(* direction.                                                              *)
(*                                                                         *)
(* A sample is a record [cls, v]: cls is "finite", "nan" or "inf", v the  *)
(* value of a finite sample.  Array indices are 0-based as in the source; *)
(* At(x, i) reads x[i].  A mean is the exact fraction <<sum, count>>;     *)
(* count 0 is numpy's nan (mean of an empty list).                        *)
(***************************************************************************)
EXTENDS Integers, Sequences, FiniteSets

VARIABLES pc, mat, alt, lat, lon, time, wdir, wspd, peaks, vally, mami,
          all_points, alt_min, alt_max, mean, points, lats, lons, wspds,
          wdirs, out, a_mean, printed

vars == <<pc, mat, alt, lat, lon, time, wdir, wspd, peaks, vally, mami,
          all_points, alt_min, alt_max, mean, points, lats, lons, wspds,
          wdirs, out, a_mean, printed>>

\* ---------------------------------------------------------------- bounds
MaxLen == 5
MaxLongLen == 7
MaxDefLen == 3
MaxWindLen == 5

\* ------------------------------------------------------ program constants
plow == 800
vhig == 100
prom == 50

\* ---------------------------------------------------------------- samples
Fin(v) == [cls |-> "finite", v |-> v]
NaN == [cls |-> "nan", v |-> 0]
Inf == [cls |-> "inf", v |-> 0]

isfinite(x) == x.cls = "finite"
isnan(x) == x.cls = "nan"

At(x, i) == x[i + 1]
Range(s) == {s[k] : k \in 1..Len(s)}
Values(x) == [k \in 1..Len(x) |-> x[k].v]
Neg(x) == [k \in 1..Len(x) |-> 0 - x[k]]

RECURSIVE Sum(_)
Sum(s) == IF s = <<>> THEN 0 ELSE Head(s) + Sum(Tail(s))

RECURSIVE MinOf(_)
MinOf(s) == IF Len(s) = 1 THEN s[1]
            ELSE LET m == MinOf(Tail(s)) IN IF s[1] <= m THEN s[1] ELSE m

RECURSIVE MaxOf(_)
MaxOf(s) == IF Len(s) = 1 THEN s[1]
            ELSE LET m == MaxOf(Tail(s)) IN IF s[1] >= m THEN s[1] ELSE m

\* np.mean of a list of finite numbers
np_mean(s) == <<Sum(s), Len(s)>>

\* x[a:b] for 0 <= a, b
Slice(x, a, b) == LET hi == IF b <= Len(x) THEN b ELSE Len(x)
                  IN IF a >= hi THEN <<>> ELSE SubSeq(x, a + 1, hi)

\* ---------------------------------------------------------- validity mask
\* mutant of Mask: the wind-speed mask is left out of the conjunction
Mask_NoWspd(al, la, lo, ti, wd, ws) ==
    [k \in 1..Len(al) |-> isfinite(al[k]) /\ isfinite(la[k]) /\ isfinite(lo[k])
                          /\ isfinite(ti[k]) /\ isfinite(wd[k])]

\* mask = alt_mask & lat_mask & lon_mask & time_mask & wdir_mask & wspd_mask
Mask(al, la, lo, ti, wd, ws) ==
    [k \in 1..Len(al) |-> isfinite(al[k]) /\ isfinite(la[k]) /\ isfinite(lo[k])
                          /\ isfinite(ti[k]) /\ isfinite(wd[k]) /\ isfinite(ws[k])]

RECURSIVE ApplyFrom(_, _, _)
ApplyFrom(x, m, k) ==
    IF k > Len(x) THEN <<>>
    ELSE IF m[k] THEN <<x[k]>> \o ApplyFrom(x, m, k + 1)
         ELSE ApplyFrom(x, m, k + 1)

\* x[mask]
Apply(x, m) == ApplyFrom(x, m, 1)

\* ------------------------------------------------- scipy.signal.find_peaks
\* The plateau scan of find_peaks: i runs over 1 .. n-2; a rise at i opens a
\* plateau, i_ahead runs to its end, and a fall after it records the plateau's
\* midpoint (left_edge + right_edge) // 2.
RECURSIVE Ahead(_, _, _)
Ahead(x, i, ia) ==
    IF ia < Len(x) - 1 /\ At(x, ia) = At(x, i) THEN Ahead(x, i, ia + 1) ELSE ia

RECURSIVE LocalMaximaFrom(_, _)
LocalMaximaFrom(x, i) ==
    IF i >= Len(x) - 1 THEN <<>>
    ELSE IF At(x, i - 1) < At(x, i)
         THEN LET ia == Ahead(x, i, i + 1)
              IN IF At(x, ia) < At(x, i)
                 THEN <<(i + (ia - 1)) \div 2>> \o LocalMaximaFrom(x, ia + 1)
                 ELSE LocalMaximaFrom(x, i + 1)
         ELSE LocalMaximaFrom(x, i + 1)

LocalMaxima(x) == LocalMaximaFrom(x, 1)

\* The prominence walk: from the peak outwards while the samples are not
\* higher than the peak, keeping the lowest sample seen.
RECURSIVE LeftMin(_, _, _, _)
LeftMin(x, p, i, m) ==
    IF i < 0 \/ At(x, i) > At(x, p) THEN m
    ELSE LeftMin(x, p, i - 1, IF At(x, i) < m THEN At(x, i) ELSE m)

RECURSIVE RightMin(_, _, _, _)
RightMin(x, p, i, m) ==
    IF i > Len(x) - 1 \/ At(x, i) > At(x, p) THEN m
    ELSE RightMin(x, p, i + 1, IF At(x, i) < m THEN At(x, i) ELSE m)

Prominence(x, p) ==
    LET l == LeftMin(x, p, p, At(x, p))
        r == RightMin(x, p, p, At(x, p))
    IN At(x, p) - (IF l >= r THEN l ELSE r)

\* find_peaks(x, height=h, prominence=pr)[0]
find_peaks(x, h, pr) ==
    LET high(p) == At(x, p) >= h
        prominent(p) == Prominence(x, p) >= pr
    IN SelectSeq(SelectSeq(LocalMaxima(x), high), prominent)

\* mutant of Peaks: the valley threshold is passed as the peak height
Peaks_WrongHeight(a) == find_peaks(Values(a), vhig, prom)

\* peaks = scipy.signal.find_peaks(alt, height=plow, prominence=prom)
Peaks(a) == find_peaks(Values(a), plow, prom)

\* vally = scipy.signal.find_peaks(-alt, height=-vhig, prominence=prom)
Vally(a) == find_peaks(Neg(Values(a)), 0 - vhig, prom)

\* ------------------------------------------------------ alternation pairing
\* sorted(..., key=lambda tup: tup[0]): a stable insertion sort on the index
RECURSIVE InsertByIndex(_, _)
InsertByIndex(s, e) ==
    IF s = <<>> THEN <<e>>
    ELSE IF Head(s)[1] <= e[1] THEN <<Head(s)>> \o InsertByIndex(Tail(s), e)
         ELSE <<e>> \o s

RECURSIVE SortedByIndex(_)
SortedByIndex(s) ==
    IF s = <<>> THEN <<>>
    ELSE InsertByIndex(SortedByIndex(SubSeq(s, 1, Len(s) - 1)), s[Len(s)])

Tag(idx, kind) == [k \in 1..Len(idx) |-> <<idx[k], kind>>]

\* mutant of Mami: the merged list is left unsorted
Mami_Unsorted(pk, vl) == Tag(pk, 1) \o Tag(vl, 0)

\* mami = sorted(ma+mi, key=lambda tup: tup[0])
Mami(pk, vl) == SortedByIndex(Tag(pk, 1) \o Tag(vl, 0))

\* mutant of AllPoints: every neighbouring pair is kept, same kind or not
AllPoints_NoKindTest(m) ==
    [k \in 1..(IF Len(m) = 0 THEN 0 ELSE Len(m) - 1) |-> <<m[k], m[k + 1]>>]

\* the loop over zip(mami[:-1], mami[1:])
RECURSIVE AllPointsFrom(_, _)
AllPointsFrom(m, k) ==
    IF k >= Len(m) THEN <<>>
    ELSE IF m[k][2] # m[k + 1][2]
         THEN <<(<<m[k], m[k + 1]>>)>> \o AllPointsFrom(m, k + 1)
         ELSE AllPointsFrom(m, k + 1)

AllPoints(m) == AllPointsFrom(m, 1)

\* --------------------------------------------------------- duration filter
Span(o) == o[2][1] - o[1][1]

\* mutant of MeanSpan: the spans are counted with both ends (j - i + 1)
MeanSpan_Inclusive(ap) == np_mean([k \in 1..Len(ap) |-> Span(ap[k]) + 1])

\* mean = np.mean([j[0]-i[0] for i,j in all_points])
MeanSpan(ap) == np_mean([k \in 1..Len(ap) |-> Span(ap[k])])

\* v < m for an integer v and a mean m; every comparison with nan is false
LessThanMean(v, m) == m[2] > 0 /\ v * m[2] < m[1]

\* mutant of Points: the comparison is <= instead of <
Points_LessEqual(ap, m) ==
    LET keep(o) == m[2] > 0 /\ Span(o) * m[2] <= m[1] IN SelectSeq(ap, keep)

\* points = [o for o in all_points if o[1][0]-o[0][0]<mean]
Points(ap, m) == LET keep(o) == LessThanMean(Span(o), m) IN SelectSeq(ap, keep)

\* ------------------------------------------------------ segment aggregation
\* mutant of SegMean: the slice includes the end index
SegMean_Inclusive(x, o) == np_mean(Values(Slice(x, o[1][1], o[2][1] + 1)))

\* np.mean(x[vslice]) with vslice = slice(v1, v2)
SegMean(x, o) == np_mean(Values(Slice(x, o[1][1], o[2][1])))

SegMeans(x, pts) == [k \in 1..Len(pts) |-> SegMean(x, pts[k])]

\* out = [(time[p[0][0]], time[p[1][0]], la, lo, w, d) for ... in zip(...)]
Out(ti, pts, la, lo, w, d) ==
    [k \in 1..Len(pts) |-> <<At(ti, pts[k][1][1]).v, At(ti, pts[k][2][1]).v,
                             la[k], lo[k], w[k], d[k]>>]

\* -------------------------------------------------------- summary statistic
\* a_mean=np.mean([a for a in wdir if not np.isnan(a)])
WdirMean(wd) ==
    LET notnan(a) == ~isnan(a) IN np_mean(Values(SelectSeq(wd, notnan)))

\* mutant of IntOf: the mean is rounded to the nearest integer, halves up
IntOf_Round(m) ==
    IF m[1] >= 0 THEN (2 * m[1] + m[2]) \div (2 * m[2])
    ELSE 0 - ((2 * (0 - m[1]) + m[2]) \div (2 * m[2]))

\* int(a_mean) for a finite mean: the fraction is cut off, towards zero
IntOf(m) ==
    IF m[1] >= 0 THEN m[1] \div m[2] ELSE 0 - ((0 - m[1]) \div m[2])

DigitChars == <<"0", "1", "2", "3", "4", "5", "6", "7", "8", "9">>

RECURSIVE Digits(_)
Digits(n) ==
    IF n < 10 THEN <<DigitChars[n + 1]>>
    ELSE Digits(n \div 10) \o <<DigitChars[(n % 10) + 1]>>

RECURSIVE Zeros(_)
Zeros(n) == IF n <= 0 THEN <<>> ELSE <<"0">> \o Zeros(n - 1)

\* '{:03d}'.format(k): the sign, then zeros up to a width of 3, then the digits
Format03d(k) ==
    LET sign == IF k < 0 THEN <<"-">> ELSE <<>>
        digits == Digits(IF k < 0 THEN 0 - k ELSE k)
    IN sign \o Zeros(3 - Len(sign) - Len(digits)) \o digits

\* ------------------------------------------------------------ input files
AltVals == {0, 40, 500, 880, 900}
CoarseVals == {0, 500, 900}
WdirVals == {0 - 90, 0, 179, 180}
Fields == {"Alt", "Lat", "Lon", "sys_time", "DD", "FF"}
Defects == {<<"none", "finite">>} \cup (Fields \X {"nan", "inf"})

LatAt(i) == 10 + i
LonAt(i) == 20 + 2 * i
TimeAt(i) == 1000 + 5 * i
WdirAt(i) == (100 * i + 170) % 360
WspdAt(i) == (i * i) % 7
AltAt(i) == IF i % 2 = 1 THEN 900 ELSE 0

FinSeq(v) == [k \in 1..Len(v) |-> Fin(v[k])]
LatSeq(n) == FinSeq([k \in 1..n |-> LatAt(k - 1)])
LonSeq(n) == FinSeq([k \in 1..n |-> LonAt(k - 1)])
TimeSeq(n) == FinSeq([k \in 1..n |-> TimeAt(k - 1)])
WdirSeq(n) == FinSeq([k \in 1..n |-> WdirAt(k - 1)])
WspdSeq(n) == FinSeq([k \in 1..n |-> WspdAt(k - 1)])
AltSeq(n) == FinSeq([k \in 1..n |-> AltAt(k - 1)])

\* a file whose sample k of field d[k][1] is the non-finite value d[k][2]
Damaged(f, d, x) ==
    [k \in 1..Len(x) |->
        IF d[k][1] = f THEN (IF d[k][2] = "nan" THEN NaN ELSE Inf) ELSE x[k]]

Profile(a) ==
    [Alt |-> FinSeq(a), Lat |-> LatSeq(Len(a)),
     Lon |-> LonSeq(Len(a)), sys_time |-> TimeSeq(Len(a)),
     DD |-> WdirSeq(Len(a)), FF |-> WspdSeq(Len(a))]

\* short altitude profiles over AltVals and longer ones over CoarseVals, the
\* other fields finite
ProfileFiles ==
    {Profile(a) : a \in UNION {[1..l -> AltVals] : l \in 0..MaxLen}}
    \cup {Profile(a) : a \in UNION {[1..l -> CoarseVals] : l \in 0..MaxLongLen}}

\* the flight [0,0,900,0,0,0,900,0,0] sampled at times 0..8
ExampleFile ==
    [Alt |-> FinSeq(<<0, 0, 900, 0, 0, 0, 900, 0, 0>>), Lat |-> LatSeq(9),
        Lon |-> LonSeq(9), sys_time |-> FinSeq(<<0, 1, 2, 3, 4, 5, 6, 7, 8>>),
        DD |-> WdirSeq(9), FF |-> WspdSeq(9)]

\* a zigzag flight with non-finite samples anywhere
DamagedFiles ==
    {[Alt |-> Damaged("Alt", d, AltSeq(Len(d))),
      Lat |-> Damaged("Lat", d, LatSeq(Len(d))),
      Lon |-> Damaged("Lon", d, LonSeq(Len(d))),
      sys_time |-> Damaged("sys_time", d, TimeSeq(Len(d))),
      DD |-> Damaged("DD", d, WdirSeq(Len(d))),
      FF |-> Damaged("FF", d, WspdSeq(Len(d)))] :
        d \in UNION {[1..l -> Defects] : l \in 0..MaxDefLen}}

\* a zigzag flight with wind directions over WdirVals
WindFiles ==
    {[Alt |-> AltSeq(Len(w)), Lat |-> LatSeq(Len(w)),
      Lon |-> LonSeq(Len(w)), sys_time |-> TimeSeq(Len(w)),
      DD |-> FinSeq(w), FF |-> WspdSeq(Len(w))] :
        w \in UNION {[1..l -> WdirVals] : l \in 0..MaxWindLen}}

\* ------------------------------------------------------------------ state
\* the state once the six fields are loaded
Loaded(files) ==
    /\ mat \in files
    /\ pc = "loaded"
    /\ alt = mat.Alt /\ lat = mat.Lat /\ lon = mat.Lon
    /\ time = mat.sys_time /\ wdir = mat.DD /\ wspd = mat.FF
    /\ peaks = <<>> /\ vally = <<>> /\ mami = <<>> /\ all_points = <<>>
    /\ alt_min = 0 /\ alt_max = 0
    /\ mean = <<0, 0>> /\ points = <<>>
    /\ lats = <<>> /\ lons = <<>> /\ wspds = <<>> /\ wdirs = <<>>
    /\ out = <<>> /\ a_mean = <<0, 0>> /\ printed = <<>>

Init == Loaded(ProfileFiles \cup {ExampleFile})
InitDamaged == Loaded(DamagedFiles)
InitWind == Loaded(WindFiles)

\* Filter Data for NANs; Apply Infinite Mask
FilterData ==
    /\ pc = "loaded"
    /\ LET mask == Mask(alt, lat, lon, time, wdir, wspd)
       IN /\ alt' = Apply(alt, mask)
          /\ lat' = Apply(lat, mask)
          /\ lon' = Apply(lon, mask)
          /\ time' = Apply(time, mask)
          /\ wdir' = Apply(wdir, mask)
          /\ wspd' = Apply(wspd, mask)
    /\ pc' = "filtered"
    /\ UNCHANGED <<mat, peaks, vally, mami, all_points, alt_min, alt_max, mean,
                   points, lats, lons, wspds, wdirs, out, a_mean, printed>>

\* Calculate the highest peaks and lowest valleys
FindExtrema ==
    /\ pc = "filtered"
    /\ peaks' = Peaks(alt)
    /\ vally' = Vally(alt)
    /\ pc' = "detected"
    /\ UNCHANGED <<mat, alt, lat, lon, time, wdir, wspd, mami, all_points,
                   alt_min, alt_max, mean, points, lats, lons, wspds, wdirs,
                   out, a_mean, printed>>

\* Take only the ma(x) which are followed by a mi(n), and vice versa
Pairing ==
    /\ pc = "detected"
    /\ mami' = Mami(peaks, vally)
    /\ all_points' = AllPoints(mami')
    /\ pc' = "paired"
    /\ UNCHANGED <<mat, alt, lat, lon, time, wdir, wspd, peaks, vally,
                   alt_min, alt_max, mean, points, lats, lons, wspds, wdirs,
                   out, a_mean, printed>>

\* alt_min, alt_max (in hundredths): np.min and np.max raise ValueError on an
\* empty array
AltRange ==
    /\ pc = "paired"
    /\ IF Len(alt) = 0
       THEN /\ pc' = "crashed"
            /\ UNCHANGED <<alt_min, alt_max>>
       ELSE /\ alt_min' = 100 * MinOf(Values(alt)) - 2 * MinOf(Values(alt))
            /\ alt_max' = 100 * MaxOf(Values(alt)) + 2 * MaxOf(Values(alt))
            /\ pc' = "ranged"
    /\ UNCHANGED <<mat, alt, lat, lon, time, wdir, wspd, peaks, vally, mami,
                   all_points, mean, points, lats, lons, wspds, wdirs, out,
                   a_mean, printed>>

\* Keep only valid points
KeepValid ==
    /\ pc = "ranged"
    /\ mean' = MeanSpan(all_points)
    /\ points' = Points(all_points, mean')
    /\ pc' = "kept"
    /\ UNCHANGED <<mat, alt, lat, lon, time, wdir, wspd, peaks, vally, mami,
                   all_points, alt_min, alt_max, lats, lons, wspds, wdirs, out,
                   a_mean, printed>>

\* the loop over points: the means of each segment
Aggregate ==
    /\ pc = "kept"
    /\ lats' = SegMeans(lat, points)
    /\ lons' = SegMeans(lon, points)
    /\ wspds' = SegMeans(wspd, points)
    /\ wdirs' = SegMeans(wdir, points)
    /\ pc' = "aggregated"
    /\ UNCHANGED <<mat, alt, lat, lon, time, wdir, wspd, peaks, vally, mami,
                   all_points, alt_min, alt_max, mean, points, out, a_mean,
                   printed>>

\* Save Extracted Data
SaveReport ==
    /\ pc = "aggregated"
    /\ out' = Out(time, points, lats, lons, wspds, wdirs)
    /\ pc' = "saved"
    /\ UNCHANGED <<mat, alt, lat, lon, time, wdir, wspd, peaks, vally, mami,
                   all_points, alt_min, alt_max, mean, points, lats, lons,
                   wspds, wdirs, a_mean, printed>>

\* Return mean angle: int() raises ValueError on nan and OverflowError on inf
PrintMean ==
    /\ pc = "saved"
    /\ a_mean' = WdirMean(wdir)
    /\ IF a_mean'[2] = 0 \/ \E k \in 1..Len(wdir) : wdir[k].cls = "inf"
       THEN pc' = "crashed" /\ UNCHANGED printed
       ELSE pc' = "done" /\ printed' = Format03d(IntOf(a_mean'))
    /\ UNCHANGED <<mat, alt, lat, lon, time, wdir, wspd, peaks, vally, mami,
                   all_points, alt_min, alt_max, mean, points, lats, lons,
                   wspds, wdirs, out>>

Next ==
    \/ FilterData
    \/ FindExtrema
    \/ Pairing
    \/ AltRange
    \/ KeepValid
    \/ Aggregate
    \/ SaveReport
    \/ PrintMean

Spec == Init /\ [][Next]_vars
SpecDamaged == InitDamaged /\ [][Next]_vars
SpecWind == InitWind /\ [][Next]_vars

\* ----------------------------------------------------------------- claims
Detected == pc \in {"detected", "paired", "ranged", "kept", "aggregated", "saved", "done"}
Paired == pc \in {"paired", "ranged", "kept", "aggregated", "saved", "done"}
Kept == pc \in {"kept", "aggregated", "saved", "done"}
Saved == pc \in {"saved", "done"}

StartOf(o) == o[1][1]
EndOf(o) == o[2][1]
SetMin(S) == CHOOSE m \in S : \A y \in S : m <= y
SetMax(S) == CHOOSE m \in S : \A y \in S : m >= y

RECURSIVE Total(_, _)
Total(f, S) ==
    IF S = {} THEN 0 ELSE LET i == CHOOSE j \in S : TRUE IN f[i] + Total(f, S \ {i})

\* the sum of the spans of all candidate pairs
CandidateSpans == Total([k \in 1..Len(all_points) |-> EndOf(all_points[k]) - StartOf(all_points[k])],
                        1..Len(all_points))

\* e - s < M, M the mean span of all candidates
BelowCandidateMean(o) ==
    Len(all_points) > 0 /\ (EndOf(o) - StartOf(o)) * Len(all_points) < CandidateSpans

\* C1: after the duration filter, a candidate pair (s, e) is retained if and
\* only if e - s is strictly less than the mean of end - start over all
\* candidate pairs, retained or not.
C1_DurationFilter ==
    Kept => /\ \A o \in Range(points) : o \in Range(all_points) /\ BelowCandidateMean(o)
            /\ \A o \in Range(all_points) : BelowCandidateMean(o) => o \in Range(points)

\* C1 witness: some candidates are retained and some are dropped, and the mean
\* span of the retained ones differs from the mean span of all.
C1_Witness ==
    /\ pc = "done"
    /\ points # <<>>
    /\ Len(points) < Len(all_points)
    /\ MeanSpan(points)[1] * Len(all_points) # CandidateSpans * Len(points)

Extrema == {<<p, 1>> : p \in Range(peaks)} \cup {<<v, 0>> : v \in Range(vally)}

\* A and B are neighbours in the index order of all extrema
Neighbours(A, B) == A[1] < B[1] /\ ~ \E X \in Extrema : A[1] < X[1] /\ X[1] < B[1]

\* C2: the candidate pairs are exactly the pairs (A, B) of extrema that are
\* neighbours in index order and of different kind; no candidate is MAX-MAX
\* or MIN-MIN.
C2_AlternationPairing ==
    Paired => /\ Range(all_points) =
                   {o \in Extrema \X Extrema : Neighbours(o[1], o[2]) /\ o[1][2] # o[2][2]}
              /\ \A k \in 1..Len(all_points) : all_points[k][1][2] # all_points[k][2][2]

\* C2 witness: the merged sequence holds two neighbouring extrema of the same
\* kind, which are not paired, beside a pair that is.
C2_Witness ==
    /\ pc = "paired"
    /\ all_points # <<>>
    /\ \E k \in 1..(Len(mami) - 1) : mami[k][2] = mami[k + 1][2]

\* the mean of x over the indices s .. e-1
WindowMean(x, s, e) == <<Total([i \in s..(e - 1) |-> At(x, i).v], s..(e - 1)), e - s>>

\* C5: the report has one row per retained pair, in increasing start-index
\* order; the row of the pair (s, e) holds time[s], time[e] and the means of
\* latitude, longitude, wind speed and wind direction over the indices
\* s .. e-1.
C5_SegmentAggregation ==
    Saved => /\ Len(out) = Len(points)
             /\ \A k \in 1..Len(points) :
                   LET s == StartOf(points[k])
                       e == EndOf(points[k])
                   IN out[k] = <<At(time, s).v, At(time, e).v, WindowMean(lat, s, e),
                                 WindowMean(lon, s, e), WindowMean(wspd, s, e),
                                 WindowMean(wdir, s, e)>>
             /\ \A k \in 1..(Len(points) - 1) : StartOf(points[k]) < StartOf(points[k + 1])

\* C5 witness: a report of two rows or more is written.
C5_Witness == pc = "saved" /\ Len(out) >= 2

\* p lies on a plateau that is entered by a rise and left by a fall
OnSummit(x, p) ==
    \E l \in 1..p : \E r \in p..(Len(x) - 2) :
        /\ \A j \in l..r : At(x, j) = At(x, p)
        /\ At(x, l - 1) < At(x, p)
        /\ At(x, r + 1) < At(x, p)

\* the prominence of p: its height above the higher of the two lowest samples
\* between p and the nearest higher sample (or the end) on either side
Prom(x, p) ==
    LET higherL == {j \in 0..(p - 1) : At(x, j) > At(x, p)}
        higherR == {j \in (p + 1)..(Len(x) - 1) : At(x, j) > At(x, p)}
        lo == IF higherL = {} THEN 0 ELSE SetMax(higherL) + 1
        hi == IF higherR = {} THEN Len(x) - 1 ELSE SetMin(higherR) - 1
        baseL == SetMin({At(x, j) : j \in lo..p})
        baseR == SetMin({At(x, j) : j \in p..hi})
    IN At(x, p) - (IF baseL >= baseR THEN baseL ELSE baseR)

\* C8: every peak index is a local maximum of the altitude with altitude >= 800
\* and prominence >= 50; every valley index is a local minimum with altitude
\* <= 100 and prominence >= 50 on the negated altitude; fewer than 3 samples
\* give no extrema.
C8_ExtremumDetection ==
    Detected =>
        LET a == Values(alt)
        IN /\ \A p \in Range(peaks) :
                 OnSummit(a, p) /\ At(a, p) >= 800 /\ Prom(a, p) >= 50
           /\ \A v \in Range(vally) :
                 OnSummit(Neg(a), v) /\ At(a, v) <= 100 /\ Prom(Neg(a), v) >= 50
           /\ Len(alt) < 3 => peaks = <<>> /\ vally = <<>>

\* C8 witness: a peak and a valley are reported, and a local maximum above
\* 800 whose prominence is below 50 is not.
C8_Witness ==
    /\ pc = "detected"
    /\ peaks # <<>>
    /\ vally # <<>>
    /\ \E p \in 1..(Len(alt) - 2) :
          /\ OnSummit(Values(alt), p)
          /\ At(alt, p).v >= 800
          /\ Prom(Values(alt), p) < 50
          /\ p \notin Range(peaks)

\* the candidates all have the same span
SameSpans == \A o \in Range(all_points) : \A q \in Range(all_points) : Span(o) = Span(q)

\* C9: when there are candidates, a candidate of maximal span is dropped; with
\* one candidate, or candidates of one span (as for [0,0,900,0,0,0,900,0,0]),
\* no segment is retained and the report is empty.
C9_NeverKeepsAll ==
    /\ (Kept /\ all_points # <<>>) =>
          \E o \in Range(all_points) :
              /\ \A q \in Range(all_points) : Span(q) <= Span(o)
              /\ o \notin Range(points)
    /\ (Kept /\ (Len(all_points) = 1 \/ SameSpans)) => points = <<>>
    /\ (Saved /\ (Len(all_points) = 1 \/ SameSpans)) => out = <<>>
    /\ (Saved /\ mat = ExampleFile) => out = <<>>

\* C9 witness: the flight [0,0,900,0,0,0,900,0,0] ends with two candidates of
\* span 2 and an empty report.
C9_Witness ==
    /\ pc = "done"
    /\ mat = ExampleFile
    /\ Len(all_points) = 2
    /\ SameSpans
    /\ out = <<>>

\* C10: neighbouring candidates have opposite shapes, the end of each is at or
\* before the start of the next, and every candidate starts before it ends.
C10_ShapesAlternate ==
    Paired => /\ \A k \in 1..(Len(all_points) - 1) :
                    /\ all_points[k][1][2] # all_points[k + 1][1][2]
                    /\ EndOf(all_points[k]) <= StartOf(all_points[k + 1])
              /\ \A k \in 1..Len(all_points) : StartOf(all_points[k]) < EndOf(all_points[k])

\* C10 witness: two candidates in a row are separated by a run of extrema of
\* one kind.
C10_Witness ==
    /\ pc = "paired"
    /\ \E k \in 1..(Len(all_points) - 1) : EndOf(all_points[k]) < StartOf(all_points[k + 1])

Filtered == pc # "loaded"

\* the indices (0-based) of the file at which all six fields are finite
Good ==
    {i \in 0..(Len(mat.Alt) - 1) :
        /\ isfinite(At(mat.Alt, i)) /\ isfinite(At(mat.Lat, i))
        /\ isfinite(At(mat.Lon, i)) /\ isfinite(At(mat.sys_time, i))
        /\ isfinite(At(mat.DD, i)) /\ isfinite(At(mat.FF, i))}

\* the k-th smallest index of Good, k = 1, 2, ...
KthGood(k) == CHOOSE i \in Good : Cardinality({j \in Good : j <= i}) = k

\* x holds the samples of the file's field raw at the indices of Good, in order
KeepsGood(x, raw) ==
    /\ Len(x) = Cardinality(Good)
    /\ \A k \in 1..Len(x) : x[k] = At(raw, KthGood(k)) /\ isfinite(x[k])

\* C3: when no sample is left after the validity filter, the run ends without
\* an error, with no segment and an empty report.
C3_ZeroSampleCompletes ==
    (Filtered /\ Len(alt) = 0) => pc # "crashed" /\ points = <<>> /\ out = <<>>

\* C4: the six filtered series have one length, hold exactly the samples at
\* the indices where all six fields of the file are finite, in index order
\* (so the k-th element of each comes from one index), and hold no non-finite
\* value.
C4_ValidityFilter ==
    Filtered => /\ KeepsGood(alt, mat.Alt) /\ KeepsGood(lat, mat.Lat)
                /\ KeepsGood(lon, mat.Lon) /\ KeepsGood(time, mat.sys_time)
                /\ KeepsGood(wdir, mat.DD) /\ KeepsGood(wspd, mat.FF)

\* C4 witness: the filter removed a sample whose altitude is finite and kept
\* two samples on either side of it.
C4_Witness ==
    /\ pc = "filtered"
    /\ Len(alt) = 2
    /\ \E i \in 0..(Len(mat.Alt) - 1) :
          /\ i \notin Good
          /\ isfinite(At(mat.Alt, i))
          /\ i - 1 \in Good
          /\ i + 1 \in Good

\* the mean of the non-NaN samples of the file's wind-direction field
RawNotNaN == {i \in 0..(Len(mat.DD) - 1) : ~isnan(At(mat.DD, i))}
RawWdirMean == <<Total([i \in RawNotNaN |-> At(mat.DD, i).v], RawNotNaN), Cardinality(RawNotNaN)>>

\* C7: the overall mean wind direction is taken over every non-NaN sample of
\* the wind-direction field as loaded, the samples that the validity filter
\* removed included.
C7_MeanOverRawColumn ==
    (pc = "done" /\ \A i \in RawNotNaN : isfinite(At(mat.DD, i))) => a_mean = RawWdirMean

\* the integer that a printed line stands for
RECURSIVE NumberOf(_)
NumberOf(chars) ==
    IF chars = <<>> THEN 0
    ELSE IF Head(chars) = "-" THEN 0 - NumberOf(Tail(chars))
    ELSE LET d == CHOOSE n \in 0..9 : DigitChars[n + 1] = chars[Len(chars)]
         IN 10 * NumberOf(SubSeq(chars, 1, Len(chars) - 1)) + d

\* zeros fill the line up to 3 characters and no further
Padded(chars) ==
    /\ Len(chars) >= 3
    /\ \A k \in 1..Len(chars) : chars[k] = "-" => k = 1
    /\ Len(chars) > 3 => chars[IF chars[1] = "-" THEN 2 ELSE 1] # "0"

FilteredWdirSum == Total([k \in 1..Len(wdir) |-> wdir[k].v], 1..Len(wdir))

\* C6 as stated: the printed number is the integer nearest to the mean of the
\* wind directions (a mean of 179.6 prints 180), zero-padded to 3 digits.
C6_RoundedToNearest ==
    pc = "done" =>
        LET k == NumberOf(printed)
            d == 2 * FilteredWdirSum - 2 * k * Len(wdir)
        IN /\ Padded(printed)
           /\ d <= Len(wdir)
           /\ 0 - d <= Len(wdir)

\* C6 amended: the printed number is the mean of the wind directions with its
\* fraction cut off, towards zero (a mean of 179.6 prints 179), zero-padded to
\* a width of 3.
C6_Truncated ==
    pc = "done" =>
        LET k == NumberOf(printed)
            n == Len(wdir)
        IN /\ Padded(printed)
           /\ FilteredWdirSum >= 0 => (k * n <= FilteredWdirSum /\ FilteredWdirSum < (k + 1) * n)
           /\ FilteredWdirSum < 0 => ((k - 1) * n < FilteredWdirSum /\ FilteredWdirSum <= k * n)

\* C6 witness: a mean of 179.6 is printed as 179.
C6_Witness ==
    /\ pc = "done"
    /\ a_mean = <<898, 5>>
    /\ printed = <<"1", "7", "9">>

====
